---------------------------- MODULE Spec2Model ----------------------------
(***************************************************************************)
(* The Activities admin page (src/src/admin/pages/Activities.js) as a      *)
(* state machine: the component's useState cells, the requests it has in   *)
(* flight, and one action per event handler / response continuation.       *)
(* A handler and the render + useEffect pass that React runs right after   *)
(* it form one action: no other handler can run in between.                *)
(***************************************************************************)
EXTENDS Integers, Sequences, FiniteSets, Bags, TLC

VARIABLES
    mounted,         \* the mount effect has run
    activities,      \* useState([])          : << >> or <<page content>>
    stats,           \* useState({})
    loading,         \* useState(true)
    filters,         \* useState({entityType, action, userId, days})
    pagination,      \* useState({page, limit, total, pages})
    logPurgeStatus,  \* useState(null)
    purging,         \* useState(false)
    reqActivities,   \* bag of GET /activities requests awaiting their answer
    reqStats,        \* bag of GET /activities/stats requests awaiting their answer
    reqStatus,       \* bag of GET /log-purge/status requests awaiting their answer
    reqPurge,        \* bag of POST /log-purge/manual requests awaiting their answer
    reqExport,       \* bag of GET /activities/export/csv requests awaiting their answer
    clicks,          \* history: user actions so far
    faults,          \* history: failed or malformed responses so far
    since,           \* history: what happened since the last filter change / purge
    last,            \* history: the handler that ran last and what it did
    util             \* a call of a function of utils/: its input and its result

\* the component's state cells, its requests in flight and its history
component == <<mounted, activities, stats, loading, filters, pagination,
               logPurgeStatus, purging, reqActivities, reqStats, reqStatus,
               reqPurge, reqExport, clicks, faults, since, last>>

vars      == <<component, util>>

---------------------------------------------------------------------------
(* Bounds of the model *)

\* requests of one kind that may be awaiting an answer at the same time
MaxInFlight == 2

\* the largest number of pages the pagination bar is rendered for
MaxWindowPages == 10

\* events of a session that the page does not cause itself: user actions
\* (clicks and selections) and responses that fail or have an unexpected shape
MaxEvents == 2

Min(a, b) == IF a < b THEN a ELSE b
Max(a, b) == IF a > b THEN a ELSE b
CeilDiv(a, b) == (a + b - 1) \div b

---------------------------------------------------------------------------
(* The options the page offers *)

EntityTypeOptions == {"", "product", "user", "story", "brand", "category"}
ActionOptions     == {"", "create", "update", "delete", "login"}
DaysOptions       == {7, 30, 90}
PageSizeOptions   == {10, 25, 50, 100}

\* The handlers never look at which option was chosen, so the model offers
\* the default and one other option of each <select>
ModelledEntityTypes == {"", "product"}
ModelledActions     == {"", "create"}
ModelledDays        == {30, 7}
ModelledPageSizes   == {50, 100}

DefaultDays  == 30
DefaultLimit == 50

FilterKeys == {"entityType", "action", "userId", "days"}

\* the values a <select> can deliver for a filter key; userId has no control
SelectValues(key) ==
    CASE key = "entityType" -> EntityTypeOptions \cap ModelledEntityTypes
      [] key = "action"     -> ActionOptions \cap ModelledActions
      [] key = "days"       -> DaysOptions \cap ModelledDays
      [] OTHER -> {}

PageSizes == PageSizeOptions \cap ModelledPageSizes

InitialFilters == [entityType |-> "", action |-> "", userId |-> "", days |-> DefaultDays]
InitialPagination == [page |-> 1, limit |-> DefaultLimit, total |-> 0, pages |-> 0]
\* the literal fetchActivities falls back to when the response has no pagination
FallbackPagination == [page |-> 1, limit |-> 50, total |-> 0, pages |-> 0]

InitialStats == [kind |-> "empty", days |-> 0]
NullStatus == "null"

---------------------------------------------------------------------------
(* The backend, seen from the page.  The log it serves does not change     *)
(* during a session; what it answers to a query is a function of the query *)

\* how many log records match a set of filters; no record of the log has an
\* action the Action filter offers
ServerTotal(f) ==
    LET inPeriod == IF f.days = 7 THEN 3 ELSE IF f.days = 30 THEN 120 ELSE 130
        ofType   == IF f.entityType = "" THEN inPeriod ELSE inPeriod \div 4
    IN  IF f.action = "" THEN ofType ELSE 0

ServerPages(f, limit) == CeilDiv(ServerTotal(f), limit)

\* the query string fetchActivities builds
ActivitiesRequest(f, p) == [page |-> p.page, limit |-> p.limit, filters |-> f]

\* the page of records and the pagination block the backend computes for a query
ServerActivities(req) ==
    IF (req.page - 1) * req.limit < ServerTotal(req.filters) THEN <<req>> ELSE << >>

ServerPagination(req) ==
    [page  |-> req.page,
     limit |-> req.limit,
     total |-> ServerTotal(req.filters),
     pages |-> ServerPages(req.filters, req.limit)]

ServerStats(days) == [kind |-> "stats", days |-> days]
MalformedStats    == [kind |-> "malformed", days |-> 0]
ServerStatus      == "status"
UndefinedStatus   == "undefined"

\* an optional member of a response body
Some(v)    == [has |-> TRUE, val |-> v]
NoActs     == [has |-> FALSE, val |-> << >>]
NoPag      == [has |-> FALSE, val |-> FallbackPagination]

\* a response body: which of the four members data.data.activities,
\* data.data.pagination, data.activities, data.pagination it carries; the
\* nested members answer the query n and the flat ones the query f
BodyOf(n, f, na, np, fa, fp) ==
    [nested |-> [activities |-> IF na THEN Some(ServerActivities(n)) ELSE NoActs,
                 pagination |-> IF np THEN Some(ServerPagination(n)) ELSE NoPag],
     flat   |-> [activities |-> IF fa THEN Some(ServerActivities(f)) ELSE NoActs,
                 pagination |-> IF fp THEN Some(ServerPagination(f)) ELSE NoPag]]

\* a body whose members all answer the query that was sent
Body(req, na, np, fa, fp) == BodyOf(req, req, na, np, fa, fp)

\* the same query with the other page size: what the flat members hold when
\* the two envelopes of a body disagree
OtherSize(req) == [req EXCEPT !.limit = IF req.limit = 50 THEN 100 ELSE 50]

\* the bodies the page may receive for a query: the nested envelope, the flat
\* one, both with different contents, the list nested beside a flat pagination
\* block, and the bodies that lack the list, the pagination block or both
ActivitiesBodies(req) ==
    { Body(req, TRUE, TRUE, FALSE, FALSE),
      Body(req, FALSE, FALSE, TRUE, TRUE),
      BodyOf(req, OtherSize(req), TRUE, TRUE, TRUE, TRUE),
      Body(req, TRUE, FALSE, FALSE, TRUE),
      Body(req, TRUE, FALSE, FALSE, FALSE),
      Body(req, FALSE, FALSE, FALSE, TRUE),
      Body(req, FALSE, FALSE, FALSE, FALSE) }

\* a body that carries both members, nested or flat
WellFormed(body) ==
    /\ body.nested.activities.has \/ body.flat.activities.has
    /\ body.nested.pagination.has \/ body.flat.pagination.has

---------------------------------------------------------------------------
(* fetchActivities: normalisation of the response *)

\* a normalisation that prefers the flat list
activitiesData_flatFirst(body) ==
    IF body.flat.activities.has THEN body.flat.activities.val
    ELSE IF body.nested.activities.has THEN body.nested.activities.val
    ELSE << >>

activitiesData(body) ==
    IF body.nested.activities.has THEN body.nested.activities.val
    ELSE IF body.flat.activities.has THEN body.flat.activities.val
    ELSE << >>

\* the fallback block written with another page size
paginationData_otherFallback(body) ==
    IF body.nested.pagination.has THEN body.nested.pagination.val
    ELSE IF body.flat.pagination.has THEN body.flat.pagination.val
    ELSE [page |-> 1, limit |-> 10, total |-> 0, pages |-> 0]

paginationData(body) ==
    IF body.nested.pagination.has THEN body.nested.pagination.val
    ELSE IF body.flat.pagination.has THEN body.flat.pagination.val
    ELSE FallbackPagination

---------------------------------------------------------------------------
(* Rendering *)

\* the early return of the component: the full-page spinner
Spinner == loading /\ Len(activities) = 0

\* the controls exist only once the mount effect has run and the page is rendered
Interactive == mounted /\ ~Spinner /\ clicks + faults < MaxEvents

\* the pagination bar is rendered
PaginationVisible(p) == p.pages > 1

\* the window drawn one page too narrow
PageButtons_narrow(p) ==
    { k \in 1..p.pages :
        k = 1 \/ k = p.pages \/ (k >= p.page - 1 /\ k <= p.page + 1) }

\* the page numbers rendered as <button>
PageButtons(p) ==
    { k \in 1..p.pages :
        k = 1 \/ k = p.pages \/ (k >= p.page - 2 /\ k <= p.page + 2) }

\* the "..." only drawn after the window
Ellipses_rightOnly(p) ==
    { k \in 1..p.pages :
        /\ ~(k = 1 \/ k = p.pages \/ (k >= p.page - 2 /\ k <= p.page + 2))
        /\ k = p.page + 3 }

\* the page numbers rendered as "..."
Ellipses(p) ==
    { k \in 1..p.pages :
        /\ ~(k = 1 \/ k = p.pages \/ (k >= p.page - 2 /\ k <= p.page + 2))
        /\ (k = p.page - 3 \/ k = p.page + 3) }

PreviousDisabled(p) == p.page = 1
NextDisabled(p)     == p.page = p.pages

\* a purge button without its disabled={purging}
PurgeNeverDisabled  == FALSE
PurgeDisabled       == purging

---------------------------------------------------------------------------
(* State updaters of the handlers *)

handleFilterChange_filters(f, key, value) == [f EXCEPT ![key] = value]

\* handleFilterChange without its setPagination call
handleFilterChange_keepsPage(p) == p
handleFilterChange_pagination(p) == [p EXCEPT !.page = 1]

clearFilters_filters == [entityType |-> "", action |-> "", userId |-> "", days |-> 30]
clearFilters_pagination(p) == [p EXCEPT !.page = 1]

pageSize_pagination(p, value) == [p EXCEPT !.limit = value, !.page = 1]

\* Previous without its Math.max(1, ...)
previous_unclamped(p) == [p EXCEPT !.page = p.page - 1]
previous_pagination(p) == [p EXCEPT !.page = Max(1, p.page - 1)]
next_pagination(p)     == [p EXCEPT !.page = Min(p.pages, p.page + 1)]
goto_pagination(p, k)  == [p EXCEPT !.page = k]

---------------------------------------------------------------------------
(* Requests in flight *)

One(x) == SetToBag({x})

Network == [a |-> reqActivities, s |-> reqStats, u |-> reqStatus]

\* the model's bound on requests awaiting an answer
Room(net) ==
    /\ BagCardinality(net.a) < MaxInFlight
    /\ BagCardinality(net.s) < MaxInFlight
    /\ BagCardinality(net.u) < MaxInFlight

\* a round of fetches that first aborts the activities requests still in flight
FetchAll_abortsOlder(net, f, p) ==
    [a |-> One(ActivitiesRequest(f, p)),
     s |-> net.s (+) One(f.days),
     u |-> net.u (+) One("status")]

\* fetchActivities(); fetchStats(); fetchLogPurgeStatus(), called from a render
\* whose filters are f and whose pagination is p: the three requests they send
FetchAll(net, f, p) ==
    [a |-> net.a (+) One(ActivitiesRequest(f, p)),
     s |-> net.s (+) One(f.days),
     u |-> net.u (+) One("status")]

\* an effect that depends on filters only
DepsChanged_filtersOnly(newFilters, p) == newFilters

\* useEffect(..., [filters, pagination.page]): after a render the effect runs
\* when filters is a new object or pagination.page differs from the last render
DepsChanged(newFilters, p) == newFilters \/ p.page # pagination.page

\* the render and effect pass after a handler that left filters f (a new object
\* iff newFilters) and pagination p, with the requests net still in flight and
\* loading left at ld by the handler
Commit(net, newFilters, f, p, ld) ==
    LET fire == DepsChanged(newFilters, p)
        out  == IF fire THEN FetchAll(net, f, p) ELSE net
    IN  /\ fire => Room(net)
        /\ filters' = f
        /\ pagination' = p
        /\ loading' = (IF fire THEN TRUE ELSE ld)
        /\ reqActivities' = out.a
        /\ reqStats' = out.s
        /\ reqStatus' = out.u

UserOps == {"filter", "clear", "pageSize", "previous", "next", "goto", "purgeClick",
            "export"}
ResetOps == {"filter", "clear", "pageSize"}
NavigationOps == {"pageSize", "previous", "next", "goto"}
PassiveOps == {"activitiesResponse", "statsResponse", "statusResponse"}
FaultOutcomes == {"reject", "malformed", "failure"}

\* history: what the handler that just ran was (the continuations of the three
\* passive fetches that got a well-formed answer are recorded alike, as
\* "response"), how its request ended, whether the effect ran after it, the
\* alert() it raised, and (for the handlers that reset the page) the page it
\* started from; since when the fetches are counted, and whether an answer to
\* an activities request has been applied yet
Did(op, outcome, fired, alert) ==
    /\ outcome \in FaultOutcomes => clicks + faults < MaxEvents
    /\ faults' = IF outcome \in FaultOutcomes THEN faults + 1 ELSE faults
    /\ clicks' = IF op \in UserOps THEN clicks + 1 ELSE clicks
    /\ since' =
         LET n == IF fired \/ (op = "purgeResponse" /\ outcome = "success")
                  THEN 1 ELSE 0
             more(c) == Min(c + n, 2)
         IN  [filter |-> IF op \in {"filter", "clear"} THEN TRUE
                         ELSE IF op \in NavigationOps THEN FALSE
                         ELSE since.filter,
              purge  |-> IF op \in UserOps THEN FALSE
                         ELSE IF op = "purgeResponse" /\ outcome = "success" THEN TRUE
                         ELSE since.purge,
              a |-> IF op \in UserOps THEN 0
                    ELSE IF op = "purgeResponse" /\ outcome = "success" THEN 1
                    ELSE IF since.purge THEN more(since.a) ELSE 0,
              s |-> IF op \in UserOps THEN 0
                    ELSE IF op = "purgeResponse" /\ outcome = "success" THEN 1
                    ELSE IF since.purge THEN more(since.s) ELSE 0,
              u |-> IF op \in UserOps THEN 0
                    ELSE IF op = "purgeResponse" /\ outcome = "success" THEN 1
                    ELSE IF since.purge THEN more(since.u) ELSE 0,
              loaded |-> since.loaded \/ (op = "activitiesResponse" /\ outcome # "reject")]
    /\ last' = [op |-> IF op \in PassiveOps /\ outcome = "ok" THEN "response" ELSE op,
                outcome |-> outcome, fired |-> fired, alert |-> alert,
                pageBefore |-> IF op \in ResetOps THEN pagination.page ELSE 0]

---------------------------------------------------------------------------
(* Initial state: the useState initial values, before the mount effect *)

\* no function of utils/ is being evaluated
NoCall == [fn |-> "none"]

ComponentInit ==
    /\ mounted = FALSE
    /\ activities = << >>
    /\ stats = InitialStats
    /\ loading = TRUE
    /\ filters = InitialFilters
    /\ pagination = InitialPagination
    /\ logPurgeStatus = NullStatus
    /\ purging = FALSE
    /\ reqActivities = EmptyBag
    /\ reqStats = EmptyBag
    /\ reqStatus = EmptyBag
    /\ reqPurge = EmptyBag
    /\ reqExport = EmptyBag
    /\ clicks = 0
    /\ faults = 0
    /\ since = [filter |-> FALSE, purge |-> FALSE, a |-> 0, s |-> 0, u |-> 0,
                loaded |-> FALSE]
    /\ last = [op |-> "init", outcome |-> "", fired |-> FALSE, alert |-> "",
               pageBefore |-> 0]

Init == ComponentInit /\ util = NoCall

---------------------------------------------------------------------------
(* Actions *)

\* the effect's first run, after the first render
Mount ==
    /\ ~mounted
    /\ mounted' = TRUE
    /\ Commit(Network, TRUE, filters, pagination, loading)
    /\ Did("mount", "", TRUE, "")
    /\ UNCHANGED <<util, reqExport, activities, stats, logPurgeStatus, purging, reqPurge>>

\* onChange of one of the three filter <select>s -> handleFilterChange(key, value)
FilterChange(key, value) ==
    /\ Interactive
    /\ value # filters[key]
    /\ Commit(Network, TRUE,
              handleFilterChange_filters(filters, key, value),
              handleFilterChange_pagination(pagination), loading)
    /\ Did("filter", "", TRUE, "")
    /\ UNCHANGED <<util, reqExport, mounted, activities, stats, logPurgeStatus, purging, reqPurge>>

\* onClick of Clear Filters
ClearFilters ==
    /\ Interactive
    /\ Commit(Network, TRUE, clearFilters_filters,
              clearFilters_pagination(pagination), loading)
    /\ Did("clear", "", TRUE, "")
    /\ UNCHANGED <<util, reqExport, mounted, activities, stats, logPurgeStatus, purging, reqPurge>>

\* onChange of the page-size <select>
PageSizeChange(value) ==
    /\ Interactive
    /\ PaginationVisible(pagination)
    /\ value # pagination.limit
    /\ LET p == pageSize_pagination(pagination, value)
       IN  /\ Commit(Network, FALSE, filters, p, loading)
           /\ Did("pageSize", "", DepsChanged(FALSE, p), "")
    /\ UNCHANGED <<util, reqExport, mounted, activities, stats, logPurgeStatus, purging, reqPurge>>

\* onClick of Previous
PreviousPage ==
    /\ Interactive
    /\ PaginationVisible(pagination)
    /\ ~PreviousDisabled(pagination)
    /\ LET p == previous_pagination(pagination)
       IN  /\ Commit(Network, FALSE, filters, p, loading)
           /\ Did("previous", "", DepsChanged(FALSE, p), "")
    /\ UNCHANGED <<util, reqExport, mounted, activities, stats, logPurgeStatus, purging, reqPurge>>

\* onClick of Next
NextPage ==
    /\ Interactive
    /\ PaginationVisible(pagination)
    /\ ~NextDisabled(pagination)
    /\ LET p == next_pagination(pagination)
       IN  /\ Commit(Network, FALSE, filters, p, loading)
           /\ Did("next", "", DepsChanged(FALSE, p), "")
    /\ UNCHANGED <<util, reqExport, mounted, activities, stats, logPurgeStatus, purging, reqPurge>>

\* onClick of a page-number button
GoToPage(k) ==
    /\ Interactive
    /\ PaginationVisible(pagination)
    /\ k \in PageButtons(pagination)
    /\ LET p == goto_pagination(pagination, k)
       IN  /\ Commit(Network, FALSE, filters, p, loading)
           /\ Did("goto", "", DepsChanged(FALSE, p), "")
    /\ UNCHANGED <<util, reqExport, mounted, activities, stats, logPurgeStatus, purging, reqPurge>>

\* handleLogPurge without its confirmation gate
proceeds_unasked(confirmed) == TRUE
\* if (!window.confirm(...)) return;
proceeds(confirmed) == confirmed

\* handleLogPurge refreshing whatever the answer was
refreshes_always(outcome) == TRUE
\* if (response.data.success) { alert; fetchActivities(); fetchStats(); fetchLogPurgeStatus() }
refreshes(outcome) == outcome = "success"

\* a handler that re-enables the buttons only after a purge that succeeded
finallyPurging_onSuccessOnly(outcome) == outcome # "success"
\* finally { setPurging(false) }: the flag after the request, whatever its outcome
finallyPurging(outcome) == FALSE

\* the alert() handleLogPurge raises for an outcome
purgeAlert(outcome) ==
    CASE outcome = "success" -> "Successfully purged"
      [] outcome = "failure" -> "Failed to purge logs: message"
      [] OTHER               -> "Failed to purge logs. Please try again."

\* catch (error) { console.error(...) } of the three passive fetches: the state
\* cell keeps its value
caught(value) == value

\* onClick of a purge button -> handleLogPurge(daysOld), up to its first await;
\* confirmed is the answer to window.confirm.  The continuation keeps the
\* fetch functions of the render the click happened in.
PurgeClick(daysOld, confirmed) ==
    /\ Interactive
    /\ ~PurgeDisabled
    /\ BagCardinality(reqPurge) < MaxInFlight
    /\ IF proceeds(confirmed)
       THEN /\ purging' = TRUE
            /\ reqPurge' = reqPurge (+)
                   One([daysOld |-> daysOld,
                        closure |-> [filters |-> filters,
                                     page |-> pagination.page,
                                     limit |-> pagination.limit]])
            /\ Did("purgeClick", IF confirmed THEN "confirmed" ELSE "declined",
                   FALSE, "")
       ELSE /\ UNCHANGED <<purging, reqPurge>>
            /\ Did("purgeClick", IF confirmed THEN "confirmed" ELSE "declined",
                   FALSE, "")
    /\ UNCHANGED <<util, reqExport, mounted, activities, stats, loading, filters, pagination,
                   logPurgeStatus, reqActivities, reqStats, reqStatus>>

\* handleLogPurge after await api.post(...): outcome is "success"
\* (data.success true), "failure" (data.success false) or "reject" (the
\* request failed)
PurgeResponse(req, outcome) ==
    /\ BagIn(req, reqPurge)
    /\ reqPurge' = reqPurge (-) One(req)
    /\ purging' = finallyPurging(outcome)
    /\ IF refreshes(outcome)
       THEN LET out == FetchAll(Network, req.closure.filters, req.closure)
            IN  /\ Room(Network)
                /\ loading' = TRUE
                /\ reqActivities' = out.a
                /\ reqStats' = out.s
                /\ reqStatus' = out.u
                /\ Did("purgeResponse", outcome, FALSE, purgeAlert(outcome))
       ELSE /\ UNCHANGED <<loading, reqActivities, reqStats, reqStatus>>
            /\ Did("purgeResponse", outcome, FALSE, purgeAlert(outcome))
    /\ UNCHANGED <<util, reqExport, mounted, activities, stats, filters, pagination, logPurgeStatus>>

\* fetchActivities after await api.get(...): the request was rejected
ActivitiesRejected(req) ==
    /\ BagIn(req, reqActivities)
    /\ reqActivities' = reqActivities (-) One(req)
    /\ loading' = FALSE
    /\ activities' = caught(activities)
    /\ pagination' = caught(pagination)
    /\ Did("activitiesResponse", "reject", FALSE, "")
    /\ UNCHANGED <<util, reqExport, mounted, stats, filters, logPurgeStatus,
                   purging, reqStats, reqStatus, reqPurge>>

\* fetchActivities after await api.get(...): a body arrived
ActivitiesResponse(req, body) ==
    /\ BagIn(req, reqActivities)
    /\ activities' = activitiesData(body)
    /\ LET p == paginationData(body)
       IN  /\ Commit([Network EXCEPT !.a = reqActivities (-) One(req)],
                     FALSE, filters, p, FALSE)
           /\ Did("activitiesResponse",
                  IF WellFormed(body) THEN "ok" ELSE "malformed",
                  DepsChanged(FALSE, p), "")
    /\ UNCHANGED <<util, reqExport, mounted, stats, logPurgeStatus, purging, reqPurge>>

\* fetchStats after await api.get(...)
StatsResponse(days, outcome) ==
    /\ BagIn(days, reqStats)
    /\ reqStats' = reqStats (-) One(days)
    /\ stats' = CASE outcome = "ok" -> ServerStats(days)
                  [] outcome = "malformed" -> MalformedStats
                  [] OTHER -> caught(stats)
    /\ Did("statsResponse", outcome, FALSE, "")
    /\ UNCHANGED <<util, reqExport, mounted, activities, loading, filters, pagination, logPurgeStatus,
                   purging, reqActivities, reqStatus, reqPurge>>

\* fetchLogPurgeStatus after await api.get(...)
StatusResponse(outcome) ==
    /\ BagIn("status", reqStatus)
    /\ reqStatus' = reqStatus (-) One("status")
    /\ logPurgeStatus' = CASE outcome = "ok" -> ServerStatus
                           [] outcome = "malformed" -> UndefinedStatus
                           [] OTHER -> caught(logPurgeStatus)
    /\ Did("statusResponse", outcome, FALSE, "")
    /\ UNCHANGED <<util, reqExport, mounted, activities, stats, loading, filters, pagination,
                   purging, reqActivities, reqStats, reqPurge>>

\* handleExport reloading the page's data when the export failed
handleExport_refetches(net) == FetchAll(net, filters, pagination)

\* handleExport: catch (error) { console.error(...) } sends nothing
handleExport_catch(net) == net

\* the name of the file the browser is told to save
ExportFileName(days) == "activities-export-" \o ToString(days) \o "days.csv"

\* onClick of Export CSV -> handleExport, up to its await
ExportClick ==
    /\ Interactive
    /\ BagCardinality(reqExport) < MaxInFlight
    /\ reqExport' = reqExport (+) One(filters.days)
    /\ Did("export", "", FALSE, "")
    /\ UNCHANGED <<util, mounted, activities, stats, loading, filters, pagination,
                   logPurgeStatus, purging, reqActivities, reqStats, reqStatus,
                   reqPurge>>

\* handleExport after await api.get(...): the blob is handed to the browser as
\* a download, or the failure is logged
ExportResponse(days, outcome) ==
    /\ BagIn(days, reqExport)
    /\ reqExport' = reqExport (-) One(days)
    /\ LET out == IF outcome = "reject" THEN handleExport_catch(Network) ELSE Network
       IN  /\ reqActivities' = out.a
           /\ reqStats' = out.s
           /\ reqStatus' = out.u
    /\ Did("exportResponse", outcome, FALSE,
           IF outcome = "ok" THEN ExportFileName(days) ELSE "")
    /\ UNCHANGED <<util, mounted, activities, stats, loading, filters, pagination,
                   logPurgeStatus, purging, reqPurge>>

ExportOutcomes == {"ok", "reject"}
FetchOutcomes == {"ok", "malformed", "reject"}
PurgeOutcomes == {"success", "failure", "reject"}
PurgeThresholds == {30, 90}

Next ==
    \/ Mount
    \/ \E key \in FilterKeys : \E value \in SelectValues(key) : FilterChange(key, value)
    \/ ClearFilters
    \/ \E value \in PageSizes : PageSizeChange(value)
    \/ PreviousPage
    \/ NextPage
    \/ \E k \in PageButtons(pagination) : GoToPage(k)
    \/ \E d \in PurgeThresholds : \E c \in BOOLEAN : PurgeClick(d, c)
    \/ \E req \in BagToSet(reqPurge) : \E o \in PurgeOutcomes : PurgeResponse(req, o)
    \/ \E req \in BagToSet(reqActivities) : ActivitiesRejected(req)
    \/ \E req \in BagToSet(reqActivities) :
           \E body \in ActivitiesBodies(req) : ActivitiesResponse(req, body)
    \/ \E d \in BagToSet(reqStats) : \E o \in FetchOutcomes : StatsResponse(d, o)
    \/ \E o \in FetchOutcomes : StatusResponse(o)
    \/ ExportClick
    \/ \E d \in BagToSet(reqExport) : \E o \in ExportOutcomes : ExportResponse(d, o)

Spec == Init /\ [][Next]_vars

\* what the user can do
UserAction ==
    \/ \E key \in FilterKeys : \E value \in SelectValues(key) : FilterChange(key, value)
    \/ ClearFilters
    \/ \E value \in PageSizes : PageSizeChange(value)
    \/ PreviousPage
    \/ NextPage
    \/ \E k \in PageButtons(pagination) : GoToPage(k)
    \/ \E d \in PurgeThresholds : \E c \in BOOLEAN : PurgeClick(d, c)
    \/ ExportClick

\* a backend that answers: no request fails, and every answer has the shape
\* the page expects
ActivitiesAnswered ==
    \E req \in BagToSet(reqActivities) :
        ActivitiesResponse(req, Body(req, TRUE, TRUE, FALSE, FALSE))
StatsAnswered == \E d \in BagToSet(reqStats) : StatsResponse(d, "ok")
StatusAnswered == StatusResponse("ok")
PurgeAnswered ==
    \E req \in BagToSet(reqPurge) :
        \E o \in {"success", "failure"} : PurgeResponse(req, o)
ExportAnswered == \E d \in BagToSet(reqExport) : ExportResponse(d, "ok")

AnsweringNext ==
    \/ Mount
    \/ UserAction
    \/ ActivitiesAnswered
    \/ StatsAnswered
    \/ StatusAnswered
    \/ PurgeAnswered
    \/ ExportAnswered

\* the POST of a purge is answered or fails
PurgeCompletes ==
    \E req \in BagToSet(reqPurge) : \E o \in PurgeOutcomes : PurgeResponse(req, o)

\* the administrator purges, and meanwhile changes the period or turns pages;
\* the GETs are answered as the page expects, and a purge may succeed, be
\* refused or fail in transport
PurgeNext ==
    \/ Mount
    \/ \E d \in PurgeThresholds : \E c \in BOOLEAN : PurgeClick(d, c)
    \/ \E value \in SelectValues("days") : FilterChange("days", value)
    \/ PreviousPage
    \/ NextPage
    \/ ActivitiesAnswered
    \/ StatsAnswered
    \/ StatusAnswered
    \/ PurgeCompletes

\* the promise of every request settles in the end; the fairness for the purge
\* is strong because, in the model, its answer waits whenever MaxInFlight
\* requests of a kind the refresh sends are in flight
PurgeSpec ==
    /\ Init
    /\ [][PurgeNext]_vars
    /\ WF_vars(ActivitiesAnswered)
    /\ WF_vars(StatsAnswered)
    /\ WF_vars(StatusAnswered)
    /\ SF_vars(PurgeCompletes)

\* the effect runs after the first render, and every request that stays
\* unanswered is answered in the end; the user is free to act or not
AnsweringSpec ==
    /\ Init
    /\ [][AnsweringNext]_vars
    /\ WF_vars(Mount)
    /\ WF_vars(ActivitiesAnswered)
    /\ WF_vars(StatsAnswered)
    /\ WF_vars(StatusAnswered)
    /\ WF_vars(PurgeAnswered)
    /\ WF_vars(ExportAnswered)

---------------------------------------------------------------------------
(* The pagination bar on its own: the page as it stands once a response for *)
(* page p of a log of T pages has been applied, and the navigation buttons  *)

WindowInit ==
    /\ mounted = TRUE
    /\ loading = FALSE
    /\ filters = InitialFilters
    /\ \E T \in 1..MaxWindowPages : \E p \in 1..T :
           /\ pagination = [page |-> p, limit |-> DefaultLimit,
                            total |-> T * DefaultLimit, pages |-> T]
           /\ activities = <<ActivitiesRequest(InitialFilters, pagination)>>
    /\ stats = ServerStats(DefaultDays)
    /\ logPurgeStatus = ServerStatus
    /\ purging = FALSE
    /\ reqActivities = EmptyBag
    /\ reqStats = EmptyBag
    /\ reqStatus = EmptyBag
    /\ reqPurge = EmptyBag
    /\ reqExport = EmptyBag
    /\ clicks = 0
    /\ faults = 0
    /\ since = [filter |-> FALSE, purge |-> FALSE, a |-> 0, s |-> 0, u |-> 0,
                loaded |-> TRUE]
    /\ last = [op |-> "init", outcome |-> "", fired |-> FALSE, alert |-> "",
               pageBefore |-> 0]
    /\ util = NoCall

WindowNext ==
    \/ PreviousPage
    \/ NextPage
    \/ \E k \in PageButtons(pagination) : GoToPage(k)

WindowSpec == WindowInit /\ [][WindowNext]_vars

---------------------------------------------------------------------------
(* utils/dateUtils.js and utils/urlUtils.js.  JavaScript values are records *)
(* tagged with their type.  A time value is kept as whole seconds since the *)
(* epoch plus 0..999 milliseconds                                           *)

Undefined == [type |-> "undefined"]
Null      == [type |-> "null"]
Str(text) == [type |-> "string", val |-> text]
DateAt(sec, ms) == [type |-> "Date", valid |-> TRUE, sec |-> sec, ms |-> ms]
InvalidDate     == [type |-> "Date", valid |-> FALSE, sec |-> 0, ms |-> 0]

\* ToBoolean of a value: what `!dateInput` and `a || b` look at
Truthy(v) ==
    CASE v.type = "undefined" -> FALSE
      [] v.type = "null"      -> FALSE
      [] v.type = "string"    -> v.val # ""
      [] OTHER                -> TRUE

\* the proleptic Gregorian calendar of Date: day number (0 = 1970-01-01) of a
\* civil date, and back
DaysFromCivil(y, m, d) ==
    LET yy  == IF m <= 2 THEN y - 1 ELSE y
        era == yy \div 400
        yoe == yy - era * 400
        mp  == IF m > 2 THEN m - 3 ELSE m + 9
        doy == (153 * mp + 2) \div 5 + d - 1
        doe == yoe * 365 + yoe \div 4 - yoe \div 100 + doy
    IN  era * 146097 + doe - 719468

CivilFromDays(days) ==
    LET z   == days + 719468
        era == z \div 146097
        doe == z - era * 146097
        yoe == (doe - doe \div 1460 + doe \div 36524 - doe \div 146096) \div 365
        doy == doe - (365 * yoe + yoe \div 4 - yoe \div 100)
        mp  == (5 * doy + 2) \div 153
        d   == doy - (153 * mp + 2) \div 5 + 1
        m   == IF mp < 10 THEN mp + 3 ELSE mp - 9
        y   == yoe + era * 400
    IN  [year |-> IF m <= 2 THEN y + 1 ELSE y, month |-> m, day |-> d]

IsLeap(y) == (y % 4 = 0 /\ y % 100 # 0) \/ y % 400 = 0

DaysInMonth(y, m) ==
    IF m = 2 THEN (IF IsLeap(y) THEN 29 ELSE 28)
    ELSE IF m \in {4, 6, 9, 11} THEN 30 ELSE 31

\* the date-time strings of the model and the fields a parser reads off them;
\* every other text has no fields
DateFields(text) ==
    CASE text = "2024-01-15T10:30:00.000Z" -> <<2024, 1, 15, 10, 30, 0, 0>>
      [] text = "2023-12-31T23:59:59.999Z" -> <<2023, 12, 31, 23, 59, 59, 999>>
      [] text = "2024-02-29T00:00:00.000Z" -> <<2024, 2, 29, 0, 0, 0, 0>>
      [] text = "1999-07-04T05:06:07.089Z" -> <<1999, 7, 4, 5, 6, 7, 89>>
      [] text = "2024-13-45T00:00:00.000Z" -> <<2024, 13, 45, 0, 0, 0, 0>>
      [] text = "2023-06-10T25:00:00.000Z" -> <<2023, 6, 10, 25, 0, 0, 0>>
      [] OTHER -> << >>

\* Date.parse of a string
DateParse(text) ==
    LET f == DateFields(text)
    IN  IF /\ Len(f) = 7
           /\ f[2] \in 1..12
           /\ f[3] \in 1..DaysInMonth(f[1], f[2])
           /\ f[4] \in 0..23 /\ f[5] \in 0..59 /\ f[6] \in 0..59 /\ f[7] \in 0..999
        THEN DateAt(DaysFromCivil(f[1], f[2], f[3]) * 86400
                        + f[4] * 3600 + f[5] * 60 + f[6], f[7])
        ELSE InvalidDate

\* new Date(dateInput)
NewDate(v) ==
    CASE v.type = "Date"   -> v
      [] v.type = "string" -> DateParse(v.val)
      [] v.type = "null"   -> DateAt(0, 0)
      [] OTHER             -> InvalidDate

\* isNaN(date.getTime())
IsNaNTime(date) == ~date.valid

\* the calendar fields of a time value seen tz minutes east of UTC
FieldsAt(date, tz) ==
    LET local == date.sec + tz * 60
        days  == local \div 86400
        rest  == local - days * 86400
        civil == CivilFromDays(days)
    IN  [year |-> civil.year, month |-> civil.month, day |-> civil.day,
         hours |-> rest \div 3600, minutes |-> (rest % 3600) \div 60,
         seconds |-> rest % 60, ms |-> date.ms]

\* String(n).padStart(width, '0')
RECURSIVE PadStart(_, _)
PadStart(text, width) ==
    IF Len(text) >= width THEN text ELSE PadStart("0" \o text, width)

Pad2(n) == PadStart(ToString(n), 2)

\* a formatter that formats whatever it is given
formatDate_unguarded(dateInput, tz) ==
    LET f == FieldsAt(NewDate(dateInput), tz)
    IN  Pad2(f.day) \o "/" \o Pad2(f.month) \o "/" \o ToString(f.year)

formatDate(dateInput, tz) ==
    IF ~Truthy(dateInput) THEN ""
    ELSE LET date == NewDate(dateInput)
         IN  IF IsNaNTime(date) THEN ""
             ELSE LET f == FieldsAt(date, tz)
                  IN  Pad2(f.day) \o "/" \o Pad2(f.month) \o "/" \o ToString(f.year)

formatDateTime(dateInput, tz) ==
    IF ~Truthy(dateInput) THEN ""
    ELSE LET date == NewDate(dateInput)
         IN  IF IsNaNTime(date) THEN ""
             ELSE LET f == FieldsAt(date, tz)
                  IN  Pad2(f.day) \o "/" \o Pad2(f.month) \o "/" \o ToString(f.year)
                          \o " " \o Pad2(f.hours) \o ":" \o Pad2(f.minutes)

formatDateTimeFull(dateInput, tz) ==
    IF ~Truthy(dateInput) THEN ""
    ELSE LET date == NewDate(dateInput)
         IN  IF IsNaNTime(date) THEN ""
             ELSE LET f == FieldsAt(date, tz)
                  IN  Pad2(f.day) \o "/" \o Pad2(f.month) \o "/" \o ToString(f.year)
                          \o " " \o Pad2(f.hours) \o ":" \o Pad2(f.minutes)
                          \o ":" \o Pad2(f.seconds)

\* Math.floor((now - date) / 1000)
diffInSeconds(now, date) ==
    (now.sec - date.sec) + (IF now.ms >= date.ms THEN 0 ELSE -1)

\* `${n} ${unit}${n !== 1 ? 's' : ''} ago`
Ago(n, unit) == ToString(n) \o " " \o unit \o (IF n # 1 THEN "s" ELSE "") \o " ago"

\* the buckets with "Just now" ending one second late
relativeText_lateMinute(d) ==
    IF d < 61 THEN "Just now"
    ELSE IF d < 3600 THEN Ago(d \div 60, "minute")
    ELSE IF d < 86400 THEN Ago(d \div 3600, "hour")
    ELSE IF d < 2592000 THEN Ago(d \div 86400, "day")
    ELSE IF d < 31536000 THEN Ago(d \div 2592000, "month")
    ELSE Ago(d \div 31536000, "year")

\* the if / else if chain of formatRelativeTime
relativeText(d) ==
    IF d < 60 THEN "Just now"
    ELSE IF d < 3600 THEN Ago(d \div 60, "minute")
    ELSE IF d < 86400 THEN Ago(d \div 3600, "hour")
    ELSE IF d < 2592000 THEN Ago(d \div 86400, "day")
    ELSE IF d < 31536000 THEN Ago(d \div 2592000, "month")
    ELSE Ago(d \div 31536000, "year")

formatRelativeTime(dateInput, now) ==
    IF ~Truthy(dateInput) THEN ""
    ELSE LET date == NewDate(dateInput)
         IN  IF IsNaNTime(date) THEN ""
             ELSE relativeText(diffInSeconds(now, date))

\* date.toISOString()
ToISOString(date) ==
    LET f == FieldsAt(date, 0)
    IN  PadStart(ToString(f.year), 4) \o "-" \o Pad2(f.month) \o "-" \o Pad2(f.day)
            \o "T" \o Pad2(f.hours) \o ":" \o Pad2(f.minutes) \o ":" \o Pad2(f.seconds)
            \o "." \o PadStart(ToString(f.ms), 3) \o "Z"

formatISO(dateInput) ==
    IF ~Truthy(dateInput) THEN ""
    ELSE LET date == NewDate(dateInput)
         IN  IF IsNaNTime(date) THEN "" ELSE ToISOString(date)

\* getBaseUrl preferring the override in every build mode
getBaseUrl_overrideFirst(env) ==
    IF Truthy(env.REACT_APP_BASE_URL) THEN env.REACT_APP_BASE_URL.val
    ELSE IF env.NODE_ENV = Str("development") THEN "http://localhost:3000"
    ELSE "https://oglasheabutter.com"

\* getBaseUrl, reading process.env
getBaseUrl(env) ==
    IF env.NODE_ENV = Str("development") THEN "http://localhost:3000"
    ELSE IF Truthy(env.REACT_APP_BASE_URL) THEN env.REACT_APP_BASE_URL.val
    ELSE "https://oglasheabutter.com"

\* the inputs of the utility calls of the model

\* new Date() at the time of the call
Now == DateAt(1700000000, 500)

\* ages in seconds, around each boundary of formatRelativeTime
Ages == {-5, 0, 1, 59, 60, 61, 119, 120, 3599, 3600, 3601, 7199, 7200,
         86399, 86400, 86401, 172800, 2591999, 2592000, 2592001, 5184000,
         31535999, 31536000, 31536001, 63072000}

Millis == {0, 500, 999}

DateStrings == {"2024-01-15T10:30:00.000Z", "2023-12-31T23:59:59.999Z",
                "2024-02-29T00:00:00.000Z", "1999-07-04T05:06:07.089Z"}

BadStrings == {"not a date", "2024-13-45T00:00:00.000Z", "2023-06-10T25:00:00.000Z", " "}

\* @param {string|Date} dateInput, or nothing
DateInputs ==
    {Undefined, Null, Str(""), InvalidDate}
        \cup { Str(t) : t \in DateStrings \cup BadStrings }
        \cup { DateAt(Now.sec - a, ms) : a \in Ages, ms \in Millis }

\* minutes east of UTC of the browser's time zone
Zones == {0, 330, -300}

Envs ==
    [NODE_ENV : {Undefined, Str("development"), Str("production"), Str("test")},
     REACT_APP_BASE_URL : {Undefined, Str(""), Str("https://staging.example.com")}]

\* a page that is about to render a date or build a link: the arguments and
\* the environment of the call
UtilInit ==
    /\ ComponentInit
    /\ util \in [fn : {"none"}, dateInput : DateInputs, now : {Now}, tz : Zones,
                 env : Envs, out : {""}]

Returns(fn, value) == util' = [util EXCEPT !.fn = fn, !.out = value]

CallFormatDate ==
    Returns("formatDate", formatDate(util.dateInput, util.tz)) /\ UNCHANGED component

CallFormatDateTime ==
    Returns("formatDateTime", formatDateTime(util.dateInput, util.tz))
        /\ UNCHANGED component

CallFormatDateTimeFull ==
    Returns("formatDateTimeFull", formatDateTimeFull(util.dateInput, util.tz))
        /\ UNCHANGED component

CallFormatRelativeTime ==
    Returns("formatRelativeTime", formatRelativeTime(util.dateInput, util.now))
        /\ UNCHANGED component

CallFormatISO ==
    Returns("formatISO", formatISO(util.dateInput)) /\ UNCHANGED component

CallGetBaseUrl ==
    Returns("getBaseUrl", getBaseUrl(util.env)) /\ UNCHANGED component

UtilNext ==
    \/ CallFormatDate
    \/ CallFormatDateTime
    \/ CallFormatDateTimeFull
    \/ CallFormatRelativeTime
    \/ CallFormatISO
    \/ CallGetBaseUrl

UtilSpec == UtilInit /\ [][UtilNext]_vars

---------------------------------------------------------------------------
(* fetchActivities: the normalisation, applied to a body *)

\* the queries a body may answer
Queries ==
    { ActivitiesRequest(f, [page |-> k, limit |-> l]) :
          f \in [entityType : SelectValues("entityType"),
                 action : SelectValues("action"),
                 userId : {""},
                 days : SelectValues("days")],
          k \in 1..3, l \in PageSizes }

\* a body has arrived: each of its four members is present or absent, and the
\* flat members differ from the nested ones
NormalizeInit ==
    /\ ComponentInit
    /\ util \in { [fn |-> "none", query |-> q,
                   body |-> BodyOf(q, OtherSize(q), na, np, fa, fp), out |-> << >>] :
                      q \in Queries, na \in BOOLEAN, np \in BOOLEAN,
                      fa \in BOOLEAN, fp \in BOOLEAN }

CallActivitiesData ==
    Returns("activitiesData", activitiesData(util.body)) /\ UNCHANGED component

CallPaginationData ==
    Returns("paginationData", paginationData(util.body)) /\ UNCHANGED component

NormalizeNext ==
    \/ CallActivitiesData
    \/ CallPaginationData

NormalizeSpec == NormalizeInit /\ [][NormalizeNext]_vars

---------------------------------------------------------------------------
(* Properties *)

InRange(p) == 1 <= p.page /\ p.page <= p.pages

\* C1: right after the filter-change handler (for any filter field and value)
\* and after Clear Filters, pagination.page is 1 and pagination.limit, total
\* and pages are what they were, whatever the page was before.
C1_FilterChangeResetsPage ==
    [][ /\ last'.op \in {"filter", "clear"} =>
               pagination' = [pagination EXCEPT !.page = 1]
        /\ handleFilterChange_pagination(pagination)
               = [pagination EXCEPT !.page = 1]
        /\ clearFilters_pagination(pagination)
               = [pagination EXCEPT !.page = 1] ]_vars

\* a filter was changed while a page after the first was shown
C1_Witness ==
    last.op = "filter" /\ last.pageBefore > 1 /\ pagination.page = 1

\* C2: at most one purge request is in flight; while one is, purging is true
\* and neither purge button can start another.
C2_SinglePurgeInFlight ==
    /\ BagCardinality(reqPurge) <= 1
    /\ purging <=> BagCardinality(reqPurge) = 1
    /\ BagCardinality(reqPurge) = 1 =>
           \A d \in PurgeThresholds : \A c \in BOOLEAN : ~ENABLED PurgeClick(d, c)

\* a purge is outstanding while the page is rendered and the user could still click
C2_Witness ==
    purging /\ BagCardinality(reqPurge) = 1 /\ Interactive

\* C3 (as claimed): between a successful purge response and the next user
\* action, each passive fetch is issued exactly once; stated for sessions in
\* which no response failed or was malformed.
C3_RefreshExactlyOnce ==
    (since.purge /\ faults = 0) => (since.a = 1 /\ since.s = 1 /\ since.u = 1)

\* C4: a declined confirmation sends nothing and changes nothing, and a purge
\* request is only ever sent by a confirmed click.
C4_NoPurgeWithoutConfirmation ==
    [][ /\ (last'.op = "purgeClick" /\ last'.outcome = "declined") =>
               /\ UNCHANGED <<activities, stats, loading, filters, pagination,
                              logPurgeStatus, purging>>
               /\ UNCHANGED <<reqActivities, reqStats, reqStatus, reqPurge>>
               /\ ~purging'
        /\ BagCardinality(reqPurge') > BagCardinality(reqPurge) =>
               (last'.op = "purgeClick" /\ last'.outcome = "confirmed") ]_vars

\* the user declined the prompt
C4_Witness ==
    last.op = "purgeClick" /\ last.outcome = "declined" /\ BagCardinality(reqPurge) = 0

\* C5: a purge that ends with success = false or with a transport failure shows
\* a failure notice, issues no fetch and no new purge, and leaves activities,
\* stats, pagination, filters and purge status as they were.
C5_PurgeFailureIsInert ==
    [][ (last'.op = "purgeResponse" /\ last'.outcome \in {"failure", "reject"}) =>
            /\ last'.alert \in {"Failed to purge logs: message",
                                "Failed to purge logs. Please try again."}
            /\ UNCHANGED <<activities, stats, pagination, filters, logPurgeStatus>>
            /\ UNCHANGED <<reqActivities, reqStats, reqStatus>>
            /\ reqPurge' = EmptyBag ]_vars

\* a purge was answered with success = false
C5_Witness ==
    last.op = "purgeResponse" /\ last.outcome = "failure" /\ ~purging

\* C6: Previous, Next and the page-number buttons keep an in-range page in
\* range and change nothing else of pagination; Previous never acts at page 1
\* nor Next at the last page, and their updaters would leave the page there.
C6_NavigationStaysInRange ==
    [][ /\ (last'.op \in {"previous", "next", "goto"} /\ InRange(pagination)) =>
               /\ InRange(pagination')
               /\ pagination' = [pagination EXCEPT !.page = pagination'.page]
        /\ last'.op = "previous" => pagination.page # 1
        /\ last'.op = "next" => pagination.page # pagination.pages
        /\ pagination.page = 1 =>
               /\ PreviousDisabled(pagination)
               /\ previous_pagination(pagination).page = 1
        /\ (InRange(pagination) /\ pagination.page = pagination.pages) =>
               /\ NextDisabled(pagination)
               /\ next_pagination(pagination).page = pagination.pages ]_vars

\* Next has taken the page to the last one
C6_Witness ==
    last.op = "next" /\ pagination.pages >= 2 /\ pagination.page = pagination.pages

\* C7 (as claimed): after a filter change and until the user navigates, the
\* page is never a page number beyond the pages of the result set of the
\* current filters.
C7_NoStalePageAfterFilterChange ==
    since.filter =>
        ~(pagination.page > 1 /\ pagination.page > ServerPages(filters, pagination.limit))

\* what is drawn before page number k: the largest rendered number below it
RenderedBefore(p, k) ==
    LET below == { j \in PageButtons(p) \cup Ellipses(p) : j < k }
    IN  CHOOSE j \in below : \A i \in below : i <= j

\* C8: for T >= 2 pages and a current page p in 1..T the buttons are 1, T and
\* the at most five consecutive numbers around p; no number is both a button
\* and an ellipsis; each side of p has at most one ellipsis, and has one
\* exactly when some page number on that side is not a button.
C8_PaginationWindow ==
    LET p == pagination.page
        T == pagination.pages
        window == Max(1, p - 2) .. Min(T, p + 2)
        buttons == PageButtons(pagination)
        dots == Ellipses(pagination)
        left(S) == { k \in S : k < p }
        right(S) == { k \in S : k > p }
        hidden == (1..T) \ buttons
    IN  (T >= 2 /\ InRange(pagination)) =>
            /\ buttons = {1, T} \cup window
            /\ Cardinality(window) <= 5
            /\ buttons \cap dots = {}
            /\ dots \subseteq hidden
            /\ Cardinality(left(dots)) <= 1
            /\ Cardinality(right(dots)) <= 1
            /\ (left(dots) # {}) <=> (left(hidden) # {})
            /\ (right(dots) # {}) <=> (right(hidden) # {})

\* a page in the middle of a long log was navigated to: an ellipsis on both sides
C8_Witness ==
    /\ last.op = "goto"
    /\ InRange(pagination)
    /\ Cardinality(Ellipses(pagination)) = 2
    /\ Cardinality(PageButtons(pagination)) = 7

\* C9 (as claimed): pages = 10, page = 5 renders the buttons 1..7 and 10 with
\* an ellipsis right before 10; pages = 3, page = 1 renders 1, 2, 3 and no
\* ellipsis.
C9_AsClaimed ==
    /\ (pagination.pages = 10 /\ pagination.page = 5) =>
           /\ PageButtons(pagination) = {1, 2, 3, 4, 5, 6, 7, 10}
           /\ RenderedBefore(pagination, 10) \in Ellipses(pagination)
    /\ (pagination.pages = 3 /\ pagination.page = 1) =>
           /\ PageButtons(pagination) = {1, 2, 3}
           /\ Ellipses(pagination) = {}

\* C9 (amended): pages = 10, page = 5 renders the buttons 1, 3..7 and 10, with
\* an ellipsis in the place of 2 and one in the place of 8, the latter right
\* before 10; pages = 3, page = 1 renders 1, 2, 3 and no ellipsis.
C9_WindowExamples ==
    /\ (pagination.pages = 10 /\ pagination.page = 5) =>
           /\ PageButtons(pagination) = {1, 3, 4, 5, 6, 7, 10}
           /\ Ellipses(pagination) = {2, 8}
           /\ RenderedBefore(pagination, 10) = 8
    /\ (pagination.pages = 3 /\ pagination.page = 1) =>
           /\ PageButtons(pagination) = {1, 2, 3}
           /\ Ellipses(pagination) = {}

\* page 5 of 10 was navigated to
C9_Witness ==
    /\ last.op \in {"previous", "next", "goto"}
    /\ pagination.pages = 10
    /\ pagination.page = 5

\* the continuation of a passive fetch has just run with this outcome
Answered(op, outcome) == last'.op = op /\ last'.outcome = outcome

\* C10 (as claimed): a passive fetch that fails or is answered with an
\* unexpected shape leaves its state as it was.
C10_AsClaimed ==
    [][ /\ (\E o \in {"reject", "malformed"} : Answered("activitiesResponse", o)) =>
               UNCHANGED <<activities, pagination>>
        /\ (\E o \in {"reject", "malformed"} : Answered("statsResponse", o)) =>
               UNCHANGED stats
        /\ (\E o \in {"reject", "malformed"} : Answered("statusResponse", o)) =>
               UNCHANGED logPurgeStatus ]_vars

\* C10 (amended): a passive fetch whose request fails leaves its state as it
\* was, raises no alert, leaves the other two fetches pending (and loading
\* false, for the activities fetch); a well-formed answer to a pending fetch is
\* applied whatever failed before; an answer of unexpected shape is applied
\* too: the list becomes empty or pagination the zeroed block, stats and purge
\* status take what the body holds.
C10_PassiveFetchFailures ==
    [][ /\ Answered("activitiesResponse", "reject") =>
               /\ UNCHANGED <<activities, pagination>>
               /\ ~loading'
               /\ last'.alert = ""
               /\ UNCHANGED <<stats, logPurgeStatus, reqStats, reqStatus>>
        /\ Answered("statsResponse", "reject") =>
               /\ UNCHANGED stats
               /\ last'.alert = ""
               /\ UNCHANGED <<activities, pagination, logPurgeStatus, loading,
                              reqActivities, reqStatus>>
        /\ Answered("statusResponse", "reject") =>
               /\ UNCHANGED logPurgeStatus
               /\ last'.alert = ""
               /\ UNCHANGED <<activities, pagination, stats, loading,
                              reqActivities, reqStats>>
        /\ Answered("activitiesResponse", "malformed") =>
               /\ activities' = << >> \/ pagination' = FallbackPagination
               /\ last'.alert = ""
        /\ Answered("statsResponse", "malformed") =>
               stats' = MalformedStats /\ last'.alert = ""
        /\ Answered("statusResponse", "malformed") =>
               logPurgeStatus' = UndefinedStatus /\ last'.alert = ""
        /\ (Answered("response", "ok")
              /\ BagCardinality(reqStats') < BagCardinality(reqStats)) =>
               stats'.kind = "stats"
        /\ (Answered("response", "ok")
              /\ BagCardinality(reqStatus') < BagCardinality(reqStatus)) =>
               logPurgeStatus' = ServerStatus
        /\ (Answered("response", "ok")
              /\ BagCardinality(reqStats') >= BagCardinality(reqStats)
              /\ BagCardinality(reqStatus') >= BagCardinality(reqStatus)) =>
               /\ \E req \in BagToSet(reqActivities) :
                      /\ activities' = ServerActivities(req)
                      /\ pagination' = ServerPagination(req) ]_vars

\* a refetch failed while a loaded page was shown, and the page is still shown
C10_Witness ==
    /\ last.op = "activitiesResponse"
    /\ last.outcome = "reject"
    /\ Len(activities) > 0
    /\ ~loading

\* C11: an export request that fails changes none of activities, stats,
\* pagination, filters, loading, purging and purge status, sends no passive
\* fetch and no purge, offers no download, and is not sent again.
C11_ExportFailureIsInert ==
    [][ (last'.op = "exportResponse" /\ last'.outcome = "reject") =>
            /\ UNCHANGED <<activities, stats, pagination, filters, loading,
                           purging, logPurgeStatus>>
            /\ UNCHANGED <<reqActivities, reqStats, reqStatus, reqPurge>>
            /\ BagCardinality(reqExport') = BagCardinality(reqExport) - 1
            /\ last'.alert = "" ]_vars

\* an export failed while a loaded page was shown
C11_Witness ==
    /\ last.op = "exportResponse"
    /\ last.outcome = "reject"
    /\ since.loaded
    /\ Len(activities) > 0

\* the whole seconds between the argument of the call and the time of the call
Elapsed == (util.now.sec - NewDate(util.dateInput).sec)
               - (IF NewDate(util.dateInput).ms > util.now.ms THEN 1 ELSE 0)

\* what the call returned is count, unit (plural unless the count is 1), "ago"
Reads(count, unit) ==
    /\ count >= 1
    /\ util.out = ToString(count) \o " " \o unit \o " ago" <=> count = 1
    /\ util.out = ToString(count) \o " " \o unit \o "s ago" <=> count # 1
    /\ util.out \in {ToString(count) \o " " \o unit \o " ago",
                     ToString(count) \o " " \o unit \o "s ago"}

\* C12: for a valid date d whole seconds old, formatRelativeTime returns
\* "Just now" for d < 60, else floor(d/60) minutes below 3600, floor(d/3600)
\* hours below 86400, floor(d/86400) days below 2592000, floor(d/2592000)
\* months below 31536000 and floor(d/31536000) years from there on; the unit is
\* singular exactly for a count of 1, the count is never 0, and 59, 60, 3600
\* and 86400 seconds give "Just now", "1 minute ago", "1 hour ago", "1 day ago".
C12_RelativeTimeBuckets ==
    (/\ util.fn = "formatRelativeTime"
     /\ Truthy(util.dateInput)
     /\ NewDate(util.dateInput).valid) =>
        LET d == Elapsed
        IN  /\ d < 60 => util.out = "Just now"
            /\ (60 <= d /\ d < 3600) => Reads(d \div 60, "minute")
            /\ (3600 <= d /\ d < 86400) => Reads(d \div 3600, "hour")
            /\ (86400 <= d /\ d < 2592000) => Reads(d \div 86400, "day")
            /\ (2592000 <= d /\ d < 31536000) => Reads(d \div 2592000, "month")
            /\ 31536000 <= d => Reads(d \div 31536000, "year")
            /\ d = 59 => util.out = "Just now"
            /\ d = 60 => util.out = "1 minute ago"
            /\ d = 3600 => util.out = "1 hour ago"
            /\ d = 86400 => util.out = "1 day ago"

\* a date exactly one minute old was formatted
C12_Witness ==
    /\ util.fn = "formatRelativeTime"
    /\ util.dateInput = DateAt(util.now.sec - 60, util.now.ms)
    /\ util.out = "1 minute ago"

\* C13: getBaseUrl returns the local development origin in a development
\* build whatever the override is; in any other build it returns the override
\* when one is set and not empty, and the production domain otherwise.
C13_BaseUrlDecision ==
    util.fn = "getBaseUrl" =>
        LET mode     == util.env.NODE_ENV
            override == util.env.REACT_APP_BASE_URL
        IN  /\ mode = Str("development") => util.out = "http://localhost:3000"
            /\ (mode # Str("development") /\ override.type = "string"
                    /\ override.val # "") => util.out = override.val
            /\ (mode # Str("development")
                    /\ (override = Undefined \/ override = Str(""))) =>
                   util.out = "https://oglasheabutter.com"

\* a development build with an override set
C13_Witness ==
    /\ util.fn = "getBaseUrl"
    /\ util.env.NODE_ENV = Str("development")
    /\ util.env.REACT_APP_BASE_URL = Str("https://staging.example.com")
    /\ util.out = "http://localhost:3000"

DateFormatters == {"formatDate", "formatDateTime", "formatDateTimeFull",
                   "formatRelativeTime", "formatISO"}

\* the argument is a date: a valid Date object or a string that parses
IsDate(v) ==
    \/ v.type = "Date" /\ v.valid
    \/ v.type = "string" /\ v.val \in DateStrings

\* C14: each of the five formatters returns "" for an absent argument and for
\* one that is not a valid date, and a non-empty string for a valid date.
C14_EmptyForNoDate ==
    util.fn \in DateFormatters => (util.out = "" <=> ~IsDate(util.dateInput))

\* a formatter was given a text that is not a date
C14_Witness ==
    /\ util.fn = "formatDateTimeFull"
    /\ util.dateInput = Str("not a date")
    /\ util.out = ""

\* C15: no handler takes an activities request out of flight, and a step that
\* consumes a well-formed answer (of the three passive fetches, the one that
\* leaves the stats and purge-status requests in flight) applies it whatever the
\* filters and the page are by then: the list and the pagination block become
\* those of one of the requests that were in flight, and filters stay as they
\* are.
C15_AnswersAppliedUnconditionally ==
    [][ /\ (last'.op \in UserOps \cup {"mount", "purgeResponse", "exportResponse"}) =>
               \A req \in BagToSet(reqActivities) :
                   CopiesIn(req, reqActivities') >= CopiesIn(req, reqActivities)
        /\ (/\ last'.op = "response"
            /\ BagCardinality(reqStats') >= BagCardinality(reqStats)
            /\ BagCardinality(reqStatus') >= BagCardinality(reqStatus)) =>
               /\ filters' = filters
               /\ \E req \in BagToSet(reqActivities) :
                      /\ CopiesIn(req, reqActivities') <= CopiesIn(req, reqActivities)
                      /\ activities' = ServerActivities(req)
                      /\ pagination' = ServerPagination(req) ]_vars

\* every request has been answered, none failed, the one sent under filters
\* the user has since changed last: the page shows the list and the counts of
\* the old filters under the new ones
C15_Witness ==
    /\ mounted
    /\ faults = 0
    /\ reqActivities = EmptyBag
    /\ since.filter
    /\ last.op = "response"
    /\ Len(activities) > 0
    /\ activities[1].filters # filters
    /\ pagination = ServerPagination(activities[1])

\* no request is awaiting its answer
Quiescent ==
    /\ reqActivities = EmptyBag
    /\ reqStats = EmptyBag
    /\ reqStatus = EmptyBag
    /\ reqPurge = EmptyBag
    /\ reqExport = EmptyBag

\* C16 (as claimed): with a backend that answers every request and echoes the
\* requested page, the page sends only finitely many requests once the user
\* has stopped and comes to rest: from some point on no request is in flight.
C16_ComesToRest == <>[]Quiescent

\* C17 (as claimed): the pagination block always satisfies
\* pages = ceil(total / limit), also after a change of the page size.
C17_PagesIsCeiling ==
    pagination.pages = CeilDiv(pagination.total, pagination.limit)

\* C18 (as claimed): a change of the page size sends, in the same step, an
\* activities request for the block it leaves (the selected limit, page 1),
\* whatever the page was, page 1 included.
C18_PageSizeRefetches ==
    [][ last'.op = "pageSize" =>
            /\ pagination'.limit # pagination.limit
            /\ CopiesIn(ActivitiesRequest(filters', pagination'), reqActivities')
                   > CopiesIn(ActivitiesRequest(filters', pagination'), reqActivities) ]_vars

\* C19 (as claimed): once an answer to an activities request has been applied,
\* the full-page spinner is never shown again.
C19_SpinnerOnlyAtFirstLoad == since.loaded => ~Spinner

\* the step mounts the page or changes the value of filters or of pagination.page
Triggers ==
    \/ ~mounted /\ mounted'
    \/ filters' # filters
    \/ pagination'.page # pagination.page

\* the step sends one round of the three passive fetches, the activities
\* request being req; an answered activities request may leave in the same step
OneRound(req) ==
    /\ BagIn(req, reqActivities')
    /\ BagCardinality(reqActivities') - BagCardinality(reqActivities) \in {0, 1}
    /\ last'.op \in UserOps \cup {"mount", "purgeResponse"} =>
           CopiesIn(req, reqActivities') = CopiesIn(req, reqActivities) + 1
    /\ CopiesIn(req.filters.days, reqStats') = CopiesIn(req.filters.days, reqStats) + 1
    /\ BagCardinality(reqStats') = BagCardinality(reqStats) + 1
    /\ BagCardinality(reqStatus') = BagCardinality(reqStatus) + 1

\* the step sends no passive fetch
NoFetch ==
    /\ BagCardinality(reqActivities') <= BagCardinality(reqActivities)
    /\ BagCardinality(reqStats') <= BagCardinality(reqStats)
    /\ BagCardinality(reqStatus') <= BagCardinality(reqStatus)

\* C20 (as claimed): a step that mounts the page or changes filters or
\* pagination.page sends exactly one round of fetches, for the filters, page
\* and limit it leaves; every other step sends none.
C20_AsClaimed ==
    [][ /\ Triggers => OneRound(ActivitiesRequest(filters', pagination'))
        /\ ~Triggers => NoFetch ]_vars

\* C20 (amended): a step that mounts the page or changes filters or
\* pagination.page sends exactly one round of fetches, for the filters, page
\* and limit it leaves (a filter change: the new value and page 1).  Of the
\* steps that change neither, two send a round all the same: Clear Filters
\* pressed while the filters are the defaults and the page is 1, and the
\* answer success = true to a purge; every other step sends none.
C20_OneRoundPerChange ==
    [][ /\ Triggers => OneRound(ActivitiesRequest(filters', pagination'))
        /\ last'.op = "filter" =>
               /\ Triggers
               /\ pagination'.page = 1
               /\ \E key \in FilterKeys :
                      /\ filters'[key] # filters[key]
                      /\ filters' = [filters EXCEPT ![key] = filters'[key]]
        /\ last'.op = "clear" => OneRound(ActivitiesRequest(filters', pagination'))
        /\ (last'.op = "purgeResponse" /\ last'.outcome = "success") =>
               \E req \in BagToSet(reqActivities') : OneRound(req)
        /\ (/\ ~Triggers
            /\ last'.op # "clear"
            /\ ~(last'.op = "purgeResponse" /\ last'.outcome = "success")) => NoFetch ]_vars

\* a filter was changed on a later page: the request in flight asks for page 1
\* of the new filters
C20_Witness ==
    /\ last.op = "filter"
    /\ last.pageBefore > 1
    /\ BagIn(ActivitiesRequest(filters, pagination), reqActivities)
    /\ pagination.page = 1

\* C21 (as claimed): the round of fetches sent when a purge is answered with
\* success = true asks for the filters and the page the component has at that
\* moment: the activities request it adds carries them, and the stats request
\* it adds carries the days of those filters.
C21_PurgeRefreshIsCurrent ==
    [][ (last'.op = "purgeResponse" /\ last'.outcome = "success") =>
            /\ \E req \in BagToSet(reqActivities') :
                   /\ CopiesIn(req, reqActivities') = CopiesIn(req, reqActivities) + 1
                   /\ req.filters = filters
                   /\ req.page = pagination.page
            /\ CopiesIn(filters.days, reqStats')
                   = CopiesIn(filters.days, reqStats) + 1 ]_vars

\* C22: purging is true exactly while a purge request is outstanding; it turns
\* true only in the step of a confirmed click; each answer to the request
\* (success, success = false, transport failure) turns it false; and whenever
\* it is true it is false again later, so the buttons do not stay disabled.
C22_PurgingWhileOutstanding ==
    /\ [](purging <=> reqPurge # EmptyBag)
    /\ [][ /\ (~purging /\ purging') =>
                  (last'.op = "purgeClick" /\ last'.outcome = "confirmed")
           /\ \A o \in PurgeOutcomes :
                  (last'.op = "purgeResponse" /\ last'.outcome = o) =>
                      (purging /\ ~purging' /\ ~PurgeDisabled') ]_vars
    /\ (purging ~> ~purging)

\* a purge failed in transport and the buttons are enabled again
C22_Witness ==
    /\ last.op = "purgeResponse"
    /\ last.outcome = "reject"
    /\ ~purging
    /\ ~PurgeDisabled
    /\ mounted

\* C23: whatever members a body carries, activitiesData returns the nested list
\* if there is one, else the flat list if there is one, else the empty list;
\* paginationData returns the nested block if there is one, else the flat block
\* if there is one, else {page: 1, limit: 50, total: 0, pages: 0}; each looks at
\* its own member only, so a body may give its list from one envelope and its
\* block from the other.
C23_Normalization ==
    LET nested == util.body.nested
        flat   == util.body.flat
    IN  /\ util.fn = "activitiesData" =>
               /\ nested.activities.has =>
                      util.out = ServerActivities(util.query)
               /\ (~nested.activities.has /\ flat.activities.has) =>
                      util.out = ServerActivities(OtherSize(util.query))
               /\ (~nested.activities.has /\ ~flat.activities.has) =>
                      util.out = << >>
        /\ util.fn = "paginationData" =>
               /\ nested.pagination.has =>
                      util.out = ServerPagination(util.query)
               /\ (~nested.pagination.has /\ flat.pagination.has) =>
                      util.out = ServerPagination(OtherSize(util.query))
               /\ (~nested.pagination.has /\ ~flat.pagination.has) =>
                      util.out = [page |-> 1, limit |-> 50, total |-> 0, pages |-> 0]

\* a body with the list in both envelopes and the pagination block flat only:
\* the block returned is the flat one, while the list would be the nested one,
\* which is not the flat one
C23_Witness ==
    /\ util.fn = "paginationData"
    /\ util.body.nested.activities.has
    /\ util.body.flat.activities.has
    /\ ~util.body.nested.pagination.has
    /\ util.body.flat.pagination.has
    /\ util.out = util.body.flat.pagination.val
    /\ activitiesData(util.body) = util.body.nested.activities.val
    /\ util.body.nested.activities.val # util.body.flat.activities.val
=============================================================================
